---- MODULE Spec2Model ----
(***************************************************************************)
(* Field storage and derivative propagation of the TDEM fields objects     *)
(* (SimPEG/EM/TDEM/FieldsTDEM.py): the combinators Fields._eDeriv and      *)
(* Fields._bDeriv, and the variants Fields_b and Fields_e.                 *)
(*                                                                         *)
(* Numeric arrays are tuples of integers (vectors) and tuples of rows      *)
(* (matrices); every Python value a method can produce is a tagged record  *)
(* [tag, a]: an array, the Zero() object, a tuple of two values, or a      *)
(* raised NotImplementedError.  The adjoint flag is a Python object:       *)
(* "False", "True" or the integer 1 (written "One").                       *)
(***************************************************************************)
EXTENDS Integers, Sequences, FiniteSets, TLC

VARIABLES
    variant,        \* "b" (Fields_b) or "e" (Fields_e), fixed at construction
    MeSigmaI,       \* self.MeSigmaI, bound by startup (nE x nE)
    MeSigmaIDeriv,  \* self.MeSigmaIDeriv, bound by startup: the matrix G of u |-> diag(u) * G
    edgeCurl,       \* self.edgeCurl, bound by startup (nF x nE)
    MfMui,          \* self.MfMui, bound by startup (nF x nF)
    times,          \* self.survey.prob.times
    srcs,           \* the survey's sources: source id -> source object
    fields,         \* the Field Store: fields[tInd][src] is the stored solution vector
    call,           \* the request being served, or the idle record
    ret,            \* what the request returned (or raised)
    seen            \* the adjoint flag the source's evalDeriv received in this request

vars == <<variant, MeSigmaI, MeSigmaIDeriv, edgeCurl, MfMui, times, srcs, fields,
          call, ret, seen>>

env == <<variant, MeSigmaI, MeSigmaIDeriv, edgeCurl, MfMui, times, srcs>>

-----------------------------------------------------------------------------
(* Bounds *)

\* direction vectors have entries in -MaxVal .. MaxVal
MaxVal == 1

Vals == (0 - MaxVal) .. MaxVal

-----------------------------------------------------------------------------
(* Dense linear algebra, as numpy / scipy.sparse compute it *)

RECURSIVE SumTo(_, _)
SumTo(f, n) == IF n = 0 THEN 0 ELSE f[n] + SumTo(f, n - 1)

Rows(A) == Len(A)

Cols(A) == Len(A[1])

\* A.T
T(A) == [j \in 1..Cols(A) |-> [i \in 1..Rows(A) |-> A[i][j]]]

\* A * x for a matrix A and a vector x
MatVec(A, x) == [i \in 1..Rows(A) |-> SumTo([j \in 1..Cols(A) |-> A[i][j] * x[j]], Cols(A))]

\* A * B for matrices A and B
MatMat(A, B) ==
    [i \in 1..Rows(A) |->
        [k \in 1..Cols(B) |-> SumTo([j \in 1..Cols(A) |-> A[i][j] * B[j][k]], Cols(A))]]

\* x + y, x - y, -x on vectors
VecAdd(x, y) == [i \in 1..Len(x) |-> x[i] + y[i]]

VecSub(x, y) == [i \in 1..Len(x) |-> x[i] - y[i]]

VecNeg(x) == [i \in 1..Len(x) |-> 0 - x[i]]

\* e[:, i]
Column(A, i) == [r \in 1..Rows(A) |-> A[r][i]]

\* e[:, i] = x, as the array it leaves behind
SetColumn(A, i, x) == [r \in 1..Rows(A) |-> [A[r] EXCEPT ![i] = x[r]]]

-----------------------------------------------------------------------------
(* Python values *)

\* a 1-D array (a vector) and a 2-D array (one column per source)
Arr(a) == [tag |-> "array", a |-> a]

Arr2(a) == [tag |-> "array2", a |-> a]

Tuple2(x, y) == [tag |-> "tuple", a |-> <<x, y>>]

NotImplementedError == [tag |-> "NotImplementedError", a |-> <<>>]

NoValue == [tag |-> "none", a |-> <<>>]

Raised(x) == x.tag = "NotImplementedError"

\* SimPEG.Utils.Zero(): the additive identity object
Zero == [tag |-> "Zero", a |-> <<>>]

\* x + y where either side may be Zero()
Add(x, y) ==
    IF y.tag = "Zero" THEN x
    ELSE IF x.tag = "Zero" THEN y
    ELSE Arr(VecAdd(x.a, y.a))

\* SimPEG.Utils.Identity() * v
IdentityMul(v) == v

\* faulty variant: the flag tested for truth instead of identity with True
IsTruthy(flag) == flag \in {"True", "One"}

\* `adjoint is True`
IsTrue(flag) == flag = "True"

Flags == {"False", "True", "One"}

-----------------------------------------------------------------------------
(* Collaborators: the source objects and the Field Store *)

\* src.eval(prob, time): the electric term S_e of (S_m, S_e)
src_eval(src, time) == [i \in 1..Len(src.s_e) |-> time * src.s_e[i]]

\* src.evalDeriv(time, fields, adjoint=adjoint): the flag the source received and
\* the matrix of the linear map S_eDeriv of (S_mDeriv, S_eDeriv); the adjoint map
\* is the transpose of the forward map
src_evalDeriv(src, time, adjoint) ==
    LET D == [i \in 1..Rows(src.s_eDeriv) |->
                 [j \in 1..Cols(src.s_eDeriv) |-> time * src.s_eDeriv[i][j]]]
    IN  [adjoint |-> adjoint, S_eDeriv |-> IF IsTrue(adjoint) THEN T(D) ELSE D]

\* self[srcList, name, tInd]: one column per source of srcList
Lookup(store, srcList, tInd) ==
    [r \in 1..Len(store[tInd][srcList[1]]) |->
        [i \in 1..Len(srcList) |-> store[tInd][srcList[i]][r]]]

\* self[[src], name, tInd] for a single source, as a vector
Lookup1(store, src, tInd) == store[tInd][src]

\* the store after the array B handed out by Lookup(store, srcList, tInd), which
\* shares its memory, has been left as B by the callee
WriteBack(store, srcList, tInd, B) ==
    [store EXCEPT ![tInd] =
        [s \in DOMAIN store[tInd] |->
            IF \E i \in 1..Len(srcList) : srcList[i] = s
            THEN Column(B, CHOOSE i \in 1..Len(srcList) : srcList[i] = s)
            ELSE store[tInd][s]]]

-----------------------------------------------------------------------------
(* Fields_b *)

\* self.MeSigmaIDeriv(u): the sparse matrix diag(u) * G
MeSigmaIDerivOf(u) ==
    [i \in 1..Rows(MeSigmaIDeriv) |->
        [j \in 1..Cols(MeSigmaIDeriv) |-> u[i] * MeSigmaIDeriv[i][j]]]

\* faulty variant: the flux density scaled by the permeability mass matrix
Fields_b__b_scaled(bSolution, srcList, tInd) == Arr2(MatMat(MfMui, bSolution))

Fields_b__b(bSolution, srcList, tInd) == Arr2(bSolution)

Fields_b__bDeriv_u(tInd, src, dun_dm_v, adjoint) == Arr(IdentityMul(dun_dm_v))

\* faulty variant: the adjoint branch returns its vector instead of Zero()
Fields_b__bDeriv_m_passthrough(tInd, src, v, adjoint) ==
    IF IsTrue(adjoint) THEN Arr(v) ELSE Zero

Fields_b__bDeriv_m(tInd, src, v, adjoint) == Zero

\* faulty variant: the intermediate MfMui * bSolution written into the caller's array
Fields_b__e_product_inplace(bSolution) ==
    [bSolution |-> MatMat(MfMui, bSolution),
     e |-> MatMat(MeSigmaI, MatMat(T(edgeCurl), MatMat(MfMui, bSolution)))]

\* line 82: e is a new array, bSolution is the caller's
Fields_b__e_product(bSolution) ==
    [bSolution |-> bSolution,
     e |-> MatMat(MeSigmaI, MatMat(T(edgeCurl), MatMat(MfMui, bSolution)))]

\* faulty variant: the source term subtracted without MeSigmaI
Fields_b__e_body_unscaled(locals, i, src, tInd) ==
    LET S_e == src_eval(srcs[src], times[tInd])
    IN  [locals EXCEPT !.e = SetColumn(locals.e, i, VecSub(Column(locals.e, i), S_e))]

\* lines 84-85: one pass of the loop, on the local arrays
Fields_b__e_body(locals, i, src, tInd) ==
    LET S_e == src_eval(srcs[src], times[tInd])
    IN  [locals EXCEPT !.e = SetColumn(locals.e, i,
                                 VecSub(Column(locals.e, i), MatVec(MeSigmaI, S_e)))]

RECURSIVE Fields_b__e_loop(_, _, _, _)
Fields_b__e_loop(locals, srcList, tInd, i) ==
    IF i > Len(srcList) THEN locals
    ELSE Fields_b__e_loop(Fields_b__e_body(locals, i, srcList[i], tInd), srcList, tInd, i + 1)

\* the local arrays when _e returns: e is returned, bSolution is the array passed in
Fields_b__e_locals(bSolution, srcList, tInd) ==
    Fields_b__e_loop(Fields_b__e_product(bSolution), srcList, tInd, 1)

Fields_b__e(bSolution, srcList, tInd) == Arr2(Fields_b__e_locals(bSolution, srcList, tInd).e)

\* faulty variant: the adjoint branch without the transpose of MeSigmaI
Fields_b__eDeriv_u_untransposed(tInd, src, dun_dm_v, adjoint) ==
    IF IsTrue(adjoint)
    THEN Arr(MatVec(T(MfMui), MatVec(edgeCurl, MatVec(MeSigmaI, dun_dm_v))))
    ELSE Arr(MatVec(MeSigmaI, MatVec(T(edgeCurl), MatVec(MfMui, dun_dm_v))))

Fields_b__eDeriv_u(tInd, src, dun_dm_v, adjoint) ==
    IF IsTrue(adjoint)
    THEN Arr(MatVec(T(MfMui), MatVec(edgeCurl, MatVec(T(MeSigmaI), dun_dm_v))))
    ELSE Arr(MatVec(MeSigmaI, MatVec(T(edgeCurl), MatVec(MfMui, dun_dm_v))))

\* line 97: the call of the source's evalDeriv
Fields_b__eDeriv_m_evalDeriv(tInd, src, adjoint) ==
    src_evalDeriv(srcs[src], times[tInd], adjoint)

\* faulty variant: the adjoint branch hands MeSigmaI * v, not MeSigmaI.T * v, to the source's map
Fields_b__eDeriv_m_untransposed(tInd, src, v, adjoint) ==
    LET S_e == src_eval(srcs[src], times[tInd])
        bSolution == Lookup1(fields, src, tInd)
        S_eDeriv == Fields_b__eDeriv_m_evalDeriv(tInd, src, adjoint).S_eDeriv
        r == VecAdd(VecNeg(S_e), MatVec(T(edgeCurl), MatVec(MfMui, bSolution)))
    IN  IF IsTrue(adjoint)
        THEN Arr(VecSub(MatVec(T(MeSigmaIDerivOf(r)), v),
                        MatVec(S_eDeriv, MatVec(MeSigmaI, v))))
        ELSE Arr(VecSub(MatVec(MeSigmaIDerivOf(r), v),
                        MatVec(MeSigmaI, MatVec(S_eDeriv, v))))

Fields_b__eDeriv_m(tInd, src, v, adjoint) ==
    LET S_e == src_eval(srcs[src], times[tInd])
        bSolution == Lookup1(fields, src, tInd)
        S_eDeriv == Fields_b__eDeriv_m_evalDeriv(tInd, src, adjoint).S_eDeriv
        r == VecAdd(VecNeg(S_e), MatVec(T(edgeCurl), MatVec(MfMui, bSolution)))
    IN  IF IsTrue(adjoint)
        THEN Arr(VecSub(MatVec(T(MeSigmaIDerivOf(r)), v),
                        MatVec(S_eDeriv, MatVec(T(MeSigmaI), v))))
        ELSE Arr(VecSub(MatVec(MeSigmaIDerivOf(r), v),
                        MatVec(MeSigmaI, MatVec(S_eDeriv, v))))

-----------------------------------------------------------------------------
(* Fields_e *)

Fields_e__e(eSolution, srcList, tInd) == Arr2(eSolution)

Fields_e__eDeriv_u(tInd, src, dun_dm_v, adjoint) == Arr(dun_dm_v)

Fields_e__eDeriv_m(tInd, src, v, adjoint) == Zero

Fields_e__b(eSolution, srcList, tInd) == NotImplementedError

Fields_e__bDeriv_u(tInd, src, dun_dm_v, adjoint) == NotImplementedError

\* faulty variant: Zero() returned as in Fields_b
Fields_e__bDeriv_m_zero(tInd, src, v, adjoint) == Zero

Fields_e__bDeriv_m(tInd, src, v, adjoint) == NotImplementedError

-----------------------------------------------------------------------------
(* Method resolution on self, and the combinators of the base class Fields *)

self__b(solution, srcList, tInd) ==
    IF variant = "b" THEN Fields_b__b(solution, srcList, tInd)
    ELSE Fields_e__b(solution, srcList, tInd)

self__e(solution, srcList, tInd) ==
    IF variant = "b" THEN Fields_b__e(solution, srcList, tInd)
    ELSE Fields_e__e(solution, srcList, tInd)

self__bDeriv_u(tInd, src, dun_dm_v, adjoint) ==
    IF variant = "b" THEN Fields_b__bDeriv_u(tInd, src, dun_dm_v, adjoint)
    ELSE Fields_e__bDeriv_u(tInd, src, dun_dm_v, adjoint)

self__bDeriv_m(tInd, src, v, adjoint) ==
    IF variant = "b" THEN Fields_b__bDeriv_m(tInd, src, v, adjoint)
    ELSE Fields_e__bDeriv_m(tInd, src, v, adjoint)

self__eDeriv_u(tInd, src, dun_dm_v, adjoint) ==
    IF variant = "b" THEN Fields_b__eDeriv_u(tInd, src, dun_dm_v, adjoint)
    ELSE Fields_e__eDeriv_u(tInd, src, dun_dm_v, adjoint)

self__eDeriv_m(tInd, src, v, adjoint) ==
    IF variant = "b" THEN Fields_b__eDeriv_m(tInd, src, v, adjoint)
    ELSE Fields_e__eDeriv_m(tInd, src, v, adjoint)

\* x + y, or the exception raised while evaluating x, then y
PySum(x, y) == IF Raised(x) THEN x ELSE IF Raised(y) THEN y ELSE Add(x, y)

\* (x, y), or the exception raised while evaluating x, then y
PyTuple(x, y) == IF Raised(x) THEN x ELSE IF Raised(y) THEN y ELSE Tuple2(x, y)

\* faulty variant: forward mode leaves out the model term
Fields__eDeriv_uOnly(tInd, src, dun_dm_v, v, adjoint) ==
    IF IsTrue(adjoint)
    THEN PyTuple(self__eDeriv_u(tInd, src, v, adjoint), self__eDeriv_m(tInd, src, v, adjoint))
    ELSE self__eDeriv_u(tInd, src, dun_dm_v, "False")

Fields__eDeriv(tInd, src, dun_dm_v, v, adjoint) ==
    IF IsTrue(adjoint)
    THEN PyTuple(self__eDeriv_u(tInd, src, v, adjoint), self__eDeriv_m(tInd, src, v, adjoint))
    ELSE PySum(self__eDeriv_u(tInd, src, dun_dm_v, "False"), self__eDeriv_m(tInd, src, v, "False"))

\* faulty variant: adjoint mode sums the two components
Fields__bDeriv_summed(tInd, src, dun_dm_v, v, adjoint) ==
    IF IsTrue(adjoint)
    THEN PySum(self__bDeriv_u(tInd, src, v, adjoint), self__bDeriv_m(tInd, src, v, adjoint))
    ELSE PySum(self__bDeriv_u(tInd, src, dun_dm_v, "False"), self__bDeriv_m(tInd, src, v, "False"))

Fields__bDeriv(tInd, src, dun_dm_v, v, adjoint) ==
    IF IsTrue(adjoint)
    THEN PyTuple(self__bDeriv_u(tInd, src, v, adjoint), self__bDeriv_m(tInd, src, v, adjoint))
    ELSE PySum(self__bDeriv_u(tInd, src, dun_dm_v, "False"), self__bDeriv_m(tInd, src, v, "False"))

\* the adjoint flag that reaches the source's evalDeriv ("none": it is not called)
Seen_eDeriv_m(tInd, src, adjoint) ==
    IF variant = "b" THEN Fields_b__eDeriv_m_evalDeriv(tInd, src, adjoint).adjoint
    ELSE "none"

Seen_eDeriv(tInd, src, adjoint) ==
    IF IsTrue(adjoint) THEN Seen_eDeriv_m(tInd, src, adjoint)
    ELSE Seen_eDeriv_m(tInd, src, "False")

-----------------------------------------------------------------------------
(* The problems, surveys and stored solutions a run starts from *)

\* operator bundles of a mesh with 3 edges, 2 faces and 1 model parameter:
\* MeSigmaI (nE x nE), the matrix of MeSigmaIDeriv (nE x nM), edgeCurl (nF x nE),
\* MfMui (nF x nF); none of them needs to be symmetric
ProbPool ==
    { [MeSigmaI |-> << <<2, 1, 0>>, <<0, 1, -1>>, <<1, 0, 3>> >>,
       MeSigmaIDeriv |-> << <<1>>, <<2>>, <<-1>> >>,
       edgeCurl |-> << <<1, -1, 0>>, <<0, 1, -1>> >>,
       MfMui |-> << <<1, 2>>, <<0, 1>> >>],
      [MeSigmaI |-> << <<1, 0, 0>>, <<0, 2, 0>>, <<0, 0, 1>> >>,
       MeSigmaIDeriv |-> << <<-1>>, <<-2>>, <<-1>> >>,
       edgeCurl |-> << <<1, 0, -1>>, <<-1, 1, 0>> >>,
       MfMui |-> << <<2, 0>>, <<0, 1>> >>] }

\* source objects: s_e is the electric term per unit time, s_eDeriv (nE x nM) its
\* derivative with respect to the model per unit time
SrcZero == [s_e |-> <<0, 0, 0>>, s_eDeriv |-> << <<0>>, <<0>>, <<0>> >>]

SrcA == [s_e |-> <<1, -1, 2>>, s_eDeriv |-> << <<1>>, <<2>>, <<-1>> >>]

SrcB == [s_e |-> <<0, 2, 1>>, s_eDeriv |-> << <<0>>, <<1>>, <<2>> >>]

\* the survey's source list
SurveyPool == { <<SrcZero, SrcZero>>, <<SrcZero, SrcA>>, <<SrcA, SrcB>> }

\* the surveys a variant is run with: Fields_e never evaluates a source
SurveysOf(var) == IF var = "b" THEN SurveyPool ELSE { <<SrcA, SrcB>> }

\* prob.times
TimesPool == { <<1, 3>> }

\* stored solutions, fields[tInd][src]: face vectors for Fields_b, edge vectors for Fields_e
StorePool(var) ==
    IF var = "b"
    THEN { << << <<1, -1>>, <<0, 2>> >>, << <<2, 1>>, <<-1, 0>> >> >>,
           << << <<0, 0>>, <<1, 1>> >>, << <<-2, 1>>, <<1, 3>> >> >> }
    ELSE { << << <<1, -1, 0>>, <<0, 2, 1>> >>, << <<2, 1, -1>>, <<-1, 0, 3>> >> >>,
           << << <<0, 0, 0>>, <<1, 1, 1>> >>, << <<-2, 1, 0>>, <<1, 3, -1>> >> >> }

nE == Len(MeSigmaI)

nF == Len(MfMui)

nM == Cols(MeSigmaIDeriv)

TimeInds == 1..Len(times)

SrcIds == 1..Len(srcs)

\* the source lists a field request names
SrcLists == {<<s>> : s \in SrcIds} \cup {<<s, t>> : <<s, t>> \in {x \in SrcIds \X SrcIds : x[1] # x[2]}}

Vecs(n) == [1..n -> Vals]

\* dimension of the stored solution, and of the fields b and e
SolDim == IF variant = "b" THEN nF ELSE nE

FieldDim(f) == IF f = "b" THEN nF ELSE nE

\* the vectors a caller passes: to X_u a perturbation of the solution (forward) or a
\* vector of the field's space (adjoint); to X_m a model vector (forward) or a
\* vector of the field's space (adjoint)
Args_u(f, adjoint) == IF IsTrue(adjoint) THEN Vecs(FieldDim(f)) ELSE Vecs(SolDim)

Args_m(f, adjoint) == IF IsTrue(adjoint) THEN Vecs(FieldDim(f)) ELSE Vecs(nM)

\* the base direction a caller passes to a combinator: a perturbation of the
\* solution in forward mode, a placeholder (a constant vector) in adjoint mode
Args_base(adjoint) ==
    IF IsTrue(adjoint) THEN {[i \in 1..SolDim |-> c] : c \in Vals} ELSE Vecs(SolDim)

-----------------------------------------------------------------------------
(* The state machine: construction, then one request at a time *)

Idle == [op |-> "idle", tInd |-> 0, src |-> 0, srcList |-> <<>>,
         p |-> <<>>, v |-> <<>>, adjoint |-> "False"]

FieldCall(op, srcList, tInd) ==
    [op |-> op, tInd |-> tInd, src |-> 0, srcList |-> srcList,
     p |-> <<>>, v |-> <<>>, adjoint |-> "False"]

DerivCall(op, tInd, src, p, v, adjoint) ==
    [op |-> op, tInd |-> tInd, src |-> src, srcList |-> <<>>,
     p |-> p, v |-> v, adjoint |-> adjoint]

\* after __init__, which ends with startup()
Init ==
    /\ variant \in {"b", "e"}
    /\ \E prob \in ProbPool :
        /\ MeSigmaI = prob.MeSigmaI
        /\ MeSigmaIDeriv = prob.MeSigmaIDeriv
        /\ edgeCurl = prob.edgeCurl
        /\ MfMui = prob.MfMui
    /\ times \in TimesPool
    /\ srcs \in SurveysOf(variant)
    /\ fields \in StorePool(variant)
    /\ call = Idle
    /\ ret = NoValue
    /\ seen = "none"

\* the store when _e returns, the array it was handed sharing the store's memory
StoreAfter_e(srcList, tInd) ==
    IF variant = "b"
    THEN WriteBack(fields, srcList, tInd,
                   Fields_b__e_locals(Lookup(fields, srcList, tInd), srcList, tInd).bSolution)
    ELSE fields

Call_b ==
    /\ call = Idle
    /\ \E srcList \in SrcLists, tInd \in TimeInds :
        /\ call' = FieldCall("b", srcList, tInd)
        /\ ret' = self__b(Lookup(fields, srcList, tInd), srcList, tInd)
    /\ seen' = "none"
    /\ UNCHANGED <<env, fields>>

Call_e ==
    /\ call = Idle
    /\ \E srcList \in SrcLists, tInd \in TimeInds :
        /\ call' = FieldCall("e", srcList, tInd)
        /\ ret' = self__e(Lookup(fields, srcList, tInd), srcList, tInd)
        /\ fields' = StoreAfter_e(srcList, tInd)
    /\ seen' = "none"
    /\ UNCHANGED env

Call_bDeriv_u ==
    /\ call = Idle
    /\ \E tInd \in TimeInds, src \in SrcIds, adjoint \in Flags :
        \E d \in Args_u("b", adjoint) :
            /\ call' = DerivCall("bDeriv_u", tInd, src, d, d, adjoint)
            /\ ret' = self__bDeriv_u(tInd, src, d, adjoint)
    /\ seen' = "none"
    /\ UNCHANGED <<env, fields>>

Call_bDeriv_m ==
    /\ call = Idle
    /\ \E tInd \in TimeInds, src \in SrcIds, adjoint \in Flags :
        \E v \in Args_m("b", adjoint) :
            /\ call' = DerivCall("bDeriv_m", tInd, src, v, v, adjoint)
            /\ ret' = self__bDeriv_m(tInd, src, v, adjoint)
    /\ seen' = "none"
    /\ UNCHANGED <<env, fields>>

Call_eDeriv_u ==
    /\ call = Idle
    /\ \E tInd \in TimeInds, src \in SrcIds, adjoint \in Flags :
        \E d \in Args_u("e", adjoint) :
            /\ call' = DerivCall("eDeriv_u", tInd, src, d, d, adjoint)
            /\ ret' = self__eDeriv_u(tInd, src, d, adjoint)
    /\ seen' = "none"
    /\ UNCHANGED <<env, fields>>

Call_eDeriv_m ==
    /\ call = Idle
    /\ \E tInd \in TimeInds, src \in SrcIds, adjoint \in Flags :
        /\ \E v \in Args_m("e", adjoint) :
            /\ call' = DerivCall("eDeriv_m", tInd, src, v, v, adjoint)
            /\ ret' = self__eDeriv_m(tInd, src, v, adjoint)
        /\ seen' = Seen_eDeriv_m(tInd, src, adjoint)
    /\ UNCHANGED <<env, fields>>

Call_eDeriv ==
    /\ call = Idle
    /\ \E tInd \in TimeInds, src \in SrcIds, adjoint \in Flags :
        /\ \E p \in Args_base(adjoint), v \in Args_m("e", adjoint) :
            /\ call' = DerivCall("eDeriv", tInd, src, p, v, adjoint)
            /\ ret' = Fields__eDeriv(tInd, src, p, v, adjoint)
        /\ seen' = Seen_eDeriv(tInd, src, adjoint)
    /\ UNCHANGED <<env, fields>>

Call_bDeriv ==
    /\ call = Idle
    /\ \E tInd \in TimeInds, src \in SrcIds, adjoint \in Flags :
        \E p \in Args_base(adjoint), v \in Args_m("b", adjoint) :
            /\ call' = DerivCall("bDeriv", tInd, src, p, v, adjoint)
            /\ ret' = Fields__bDeriv(tInd, src, p, v, adjoint)
    /\ seen' = "none"
    /\ UNCHANGED <<env, fields>>

\* the caller takes the result (or catches the exception) and may ask again
Return ==
    /\ call # Idle
    /\ call' = Idle
    /\ ret' = NoValue
    /\ seen' = "none"
    /\ UNCHANGED <<env, fields>>

Next ==
    \/ Call_b
    \/ Call_e
    \/ Call_bDeriv_u
    \/ Call_bDeriv_m
    \/ Call_eDeriv_u
    \/ Call_eDeriv_m
    \/ Call_eDeriv
    \/ Call_bDeriv
    \/ Return

Spec == Init /\ [][Next]_vars

-----------------------------------------------------------------------------
(* Vocabulary of the properties *)

Dot(x, y) == SumTo([i \in 1..Len(x) |-> x[i] * y[i]], Len(x))

MatSub(A, B) == [i \in 1..Rows(A) |-> [j \in 1..Cols(A) |-> A[i][j] - B[i][j]]]

ZeroVec(n) == [i \in 1..n |-> 0]

\* equality of two Python values, compared tag first
Same(x, y) == x.tag = y.tag /\ x.a = y.a

SameValue(x, y) ==
    /\ x.tag = y.tag
    /\ IF x.tag = "tuple"
       THEN Same(x.a[1], y.a[1]) /\ Same(x.a[2], y.a[2])
       ELSE x.a = y.a

\* the sub-derivatives a combinator request resolves to
Sub_u(op, tInd, src, d, adjoint) ==
    IF op = "eDeriv" THEN self__eDeriv_u(tInd, src, d, adjoint)
    ELSE self__bDeriv_u(tInd, src, d, adjoint)

Sub_m(op, tInd, src, v, adjoint) ==
    IF op = "eDeriv" THEN self__eDeriv_m(tInd, src, v, adjoint)
    ELSE self__bDeriv_m(tInd, src, v, adjoint)

Combinator(op, tInd, src, p, v, adjoint) ==
    IF op = "eDeriv" THEN Fields__eDeriv(tInd, src, p, v, adjoint)
    ELSE Fields__bDeriv(tInd, src, p, v, adjoint)

IsCombinator == call.op \in {"eDeriv", "bDeriv"}

\* the variant defines the sub-derivatives of the requested field
SubsDefined == call.op = "eDeriv" \/ variant = "b"

\* the composed forward operator MeSigmaI * Curl^T * MfMui (nE x nF)
ForwardOperator == MatMat(MeSigmaI, MatMat(T(edgeCurl), MfMui))

\* the residual r = -S_e + Curl^T * (MfMui * storedB) of a source at a time index
Residual(tInd, src) ==
    VecSub(MatVec(T(edgeCurl), MatVec(MfMui, fields[tInd][src])),
           src_eval(srcs[src], times[tInd]))

\* the matrix of the forward map of eDeriv_m: MeSigmaIDeriv(r) - MeSigmaI * S_eDeriv
ModelJacobian(tInd, src) ==
    MatSub(MeSigmaIDerivOf(Residual(tInd, src)),
           MatMat(MeSigmaI, src_evalDeriv(srcs[src], times[tInd], "False").S_eDeriv))

-----------------------------------------------------------------------------
(* C1: a forward-mode call (adjoint=False) of _eDeriv or _bDeriv, on a variant   *)
(* that defines the sub-derivatives, returns fieldDeriv_u(t, src, p) +           *)
(* fieldDeriv_m(t, src, q), both evaluated in forward mode: p goes only to the   *)
(* _u part and q only to the _m part.                                            *)
C1_ForwardSum ==
    (IsCombinator /\ call.adjoint = "False" /\ SubsDefined) =>
        /\ SameValue(ret, Add(Sub_u(call.op, call.tInd, call.src, call.p, "False"),
                              Sub_m(call.op, call.tInd, call.src, call.v, "False")))
        /\ ret.tag = "array"

C1_Witness ==
    /\ call.op = "eDeriv" /\ call.adjoint = "False" /\ variant = "b"
    /\ call.p # call.v
    /\ ret.tag = "array"
    /\ Sub_m("eDeriv", call.tInd, call.src, call.v, "False").a # ZeroVec(nE)
    /\ Sub_u("eDeriv", call.tInd, call.src, call.p, "False").a # ZeroVec(nE)

(* C2: a call of _eDeriv or _bDeriv with adjoint=True returns the ordered pair   *)
(* (fieldDeriv_u(t, src, v, adjoint=True), fieldDeriv_m(t, src, v,               *)
(* adjoint=True)) of the output direction v: the components are not summed and   *)
(* the result does not depend on the base direction (every base direction gives  *)
(* what the zero base direction gives).                                          *)
C2_AdjointPair ==
    (IsCombinator /\ call.adjoint = "True" /\ SubsDefined) =>
        /\ ret.tag = "tuple"
        /\ Same(ret.a[1], Sub_u(call.op, call.tInd, call.src, call.v, "True"))
        /\ Same(ret.a[2], Sub_m(call.op, call.tInd, call.src, call.v, "True"))
        /\ SameValue(Combinator(call.op, call.tInd, call.src, ZeroVec(SolDim), call.v, "True"),
                     ret)

C2_Witness ==
    /\ call.op = "eDeriv" /\ call.adjoint = "True" /\ variant = "b"
    /\ ret.tag = "tuple"
    /\ ret.a[1].a # ZeroVec(nF)
    /\ ret.a[2].a # ZeroVec(nM)
    /\ call.p # ZeroVec(nF)

(* C3: on Fields_e every request on the magnetic flux density path (_b,         *)
(* _bDeriv_u, _bDeriv_m with either adjoint flag, and _bDeriv in forward and    *)
(* adjoint mode) raises NotImplementedError and yields no value.                *)
C3_UnsupportedRaises ==
    (variant = "e" /\ call.op \in {"b", "bDeriv_u", "bDeriv_m", "bDeriv"}) =>
        Raised(ret)

C3_Witness ==
    /\ variant = "e" /\ call.op = "bDeriv" /\ call.adjoint = "True"
    /\ Raised(ret)

(* C4: adjoint consistency of eDeriv_u on both variants: dot(q, eDeriv_u(t,     *)
(* src, p)) = dot(eDeriv_u(t, src, q, adjoint=True), p) for all p of the        *)
(* solution space and q of the output space (stated where q has been passed to  *)
(* the adjoint branch, for every p); on Fields_b the forward branch applies     *)
(* MeSigmaI * Curl^T * MfMui and the adjoint branch its transpose.              *)
C4_AdjointConsistency ==
    /\ (call.op = "eDeriv_u" /\ call.adjoint = "True") =>
          /\ \A p \in Vecs(SolDim) :
                Dot(call.p, self__eDeriv_u(call.tInd, call.src, p, "False").a) = Dot(ret.a, p)
          /\ variant = "b" => ret.a = MatVec(T(ForwardOperator), call.p)
    /\ (call.op = "eDeriv_u" /\ call.adjoint = "False" /\ variant = "b") =>
          ret.a = MatVec(ForwardOperator, call.p)

C4_Witness ==
    /\ call.op = "eDeriv_u" /\ call.adjoint = "True" /\ variant = "b"
    /\ MeSigmaI # T(MeSigmaI)
    /\ MfMui # T(MfMui)
    /\ ret.a # ZeroVec(nF)
    /\ ret.a # MatVec(T(MfMui), MatVec(edgeCurl, MatVec(MeSigmaI, call.p)))

(* C5: on Fields_b, column i of field_e(storedB, sourceList, t) equals          *)
(* MeSigmaI * (Curl^T * (MfMui * storedB[:, i])) - MeSigmaI * S_e_i with S_e_i  *)
(* the electric term of source i at times[t]; a column depends only on the same *)
(* column of storedB and on its own source; with all electric terms zero the    *)
(* result is MeSigmaI * Curl^T * MfMui * storedB.                               *)
C5_FieldE ==
    (call.op = "e" /\ variant = "b") =>
        LET B == Lookup(fields, call.srcList, call.tInd)
            S_e(i) == src_eval(srcs[call.srcList[i]], times[call.tInd])
        IN  /\ ret.tag = "array2"
            /\ Rows(ret.a) = nE
            /\ Cols(ret.a) = Len(call.srcList)
            /\ \A i \in 1..Len(call.srcList) :
                  /\ Column(ret.a, i) =
                        VecSub(MatVec(MeSigmaI, MatVec(T(edgeCurl), MatVec(MfMui, Column(B, i)))),
                               MatVec(MeSigmaI, S_e(i)))
                  /\ Column(ret.a, i) =
                        Column(Fields_b__e(Lookup(fields, <<call.srcList[i]>>, call.tInd),
                                           <<call.srcList[i]>>, call.tInd).a, 1)
            /\ (\A i \in 1..Len(call.srcList) : S_e(i) = ZeroVec(nE)) =>
                  ret.a = MatMat(ForwardOperator, B)

C5_Witness ==
    /\ call.op = "e" /\ variant = "b"
    /\ Len(call.srcList) = 2
    /\ call.tInd = 2
    /\ \A i \in 1..2 : MatVec(MeSigmaI, src_eval(srcs[call.srcList[i]], times[2])) # ZeroVec(nE)
    /\ Column(ret.a, 1) # Column(ret.a, 2)
    /\ ret.a # MatMat(ForwardOperator, Lookup(fields, call.srcList, call.tInd))

\* the zero-source case of C5 happens too
C5_WitnessZeroSource ==
    /\ call.op = "e" /\ variant = "b"
    /\ \A i \in 1..Len(call.srcList) : srcs[call.srcList[i]] = SrcZero
    /\ ret.a = MatMat(ForwardOperator, Lookup(fields, call.srcList, call.tInd))
    /\ ret.a # [i \in 1..nE |-> [j \in 1..Len(call.srcList) |-> 0]]

(* C6: on Fields_b the adjoint-mode eDeriv_m is the exact transpose of its      *)
(* forward-mode linear map MeSigmaIDeriv(r) - MeSigmaI * S_eDeriv, with r =     *)
(* -S_e + Curl^T * (MfMui * storedB): dot(w, eDeriv_m(t, src, v)) =             *)
(* dot(eDeriv_m(t, src, w, adjoint=True), v) for all model vectors v and field  *)
(* vectors w (stated where w has been passed to the adjoint branch, for every   *)
(* v), the source's adjoint map being the transpose of its forward map.         *)
C6_ModelDerivAdjoint ==
    /\ (call.op = "eDeriv_m" /\ variant = "b" /\ call.adjoint = "False") =>
          ret.a = MatVec(ModelJacobian(call.tInd, call.src), call.v)
    /\ (call.op = "eDeriv_m" /\ variant = "b" /\ call.adjoint = "True") =>
          /\ ret.a = MatVec(T(ModelJacobian(call.tInd, call.src)), call.v)
          /\ \A v \in Vecs(nM) :
                Dot(call.v, self__eDeriv_m(call.tInd, call.src, v, "False").a) =
                    Dot(ret.a, v)

C6_Witness ==
    /\ call.op = "eDeriv_m" /\ variant = "b" /\ call.adjoint = "True"
    /\ MeSigmaI # T(MeSigmaI)
    /\ srcs[call.src] = SrcA
    /\ Residual(call.tInd, call.src) # ZeroVec(nE)
    /\ ret.a # ZeroVec(nM)
    /\ ret.a # MatVec(T(MeSigmaIDerivOf(Residual(call.tInd, call.src))), call.v)

(* C7: the canonical field is derived by the identity: on Fields_b field_b      *)
(* returns storedB and bDeriv_u returns its direction, on Fields_e field_e      *)
(* returns the stored eSolution and eDeriv_u returns its direction, for both    *)
(* values of the adjoint flag and whatever the time index and the source.       *)
C7_Identity ==
    /\ (call.op = "b" /\ variant = "b") =>
          SameValue(ret, Arr2(Lookup(fields, call.srcList, call.tInd)))
    /\ (call.op = "e" /\ variant = "e") =>
          SameValue(ret, Arr2(Lookup(fields, call.srcList, call.tInd)))
    /\ (call.op = "bDeriv_u" /\ variant = "b") =>
          /\ SameValue(ret, Arr(call.p))
          /\ \A t \in TimeInds, s \in SrcIds, a \in {"False", "True"} :
                SameValue(self__bDeriv_u(t, s, call.p, a), ret)
    /\ (call.op = "eDeriv_u" /\ variant = "e") =>
          /\ SameValue(ret, Arr(call.p))
          /\ \A t \in TimeInds, s \in SrcIds, a \in {"False", "True"} :
                SameValue(self__eDeriv_u(t, s, call.p, a), ret)

C7_Witness ==
    /\ call.op = "bDeriv_u" /\ variant = "b" /\ call.adjoint = "True"
    /\ call.p # ZeroVec(nF)
    /\ ret = Arr(call.p)

C7_WitnessField ==
    /\ call.op = "b" /\ variant = "b" /\ Len(call.srcList) = 2
    /\ ret.a = Lookup(fields, call.srcList, call.tInd)
    /\ ret.a # MatMat(MfMui, ret.a)

(* C8: bDeriv_m on Fields_b and eDeriv_m on Fields_e return, for every time     *)
(* index, source, input vector and adjoint flag, an additive identity (x + z =  *)
(* x for every x); so forward-mode bDeriv(t, src, p, q) on Fields_b and         *)
(* forward-mode eDeriv(t, src, p, q) on Fields_e equal p for every q.           *)
C8_ZeroModelDependence ==
    /\ ((call.op = "bDeriv_m" /\ variant = "b") \/ (call.op = "eDeriv_m" /\ variant = "e")) =>
          /\ ret.tag = "Zero"
          /\ \A x \in Vecs(nE) \cup Vecs(nF) :
                /\ SameValue(Add(Arr(x), ret), Arr(x))
                /\ SameValue(Add(ret, Arr(x)), Arr(x))
          /\ SameValue(Add(Zero, ret), Zero)
    /\ (call.adjoint = "False" /\
        ((call.op = "bDeriv" /\ variant = "b") \/ (call.op = "eDeriv" /\ variant = "e"))) =>
          SameValue(ret, Arr(call.p))

C8_Witness ==
    /\ call.op = "bDeriv" /\ variant = "b" /\ call.adjoint = "False"
    /\ call.v # ZeroVec(nM)
    /\ call.p # ZeroVec(nF)
    /\ ret = Arr(call.p)

C8_WitnessZero ==
    /\ call.op = "eDeriv_m" /\ variant = "e" /\ call.adjoint = "True"
    /\ call.v # ZeroVec(nE)
    /\ ret = Zero

(* C9: no request, failing ones included, changes a stored base-field vector    *)
(* of the Field Store or an operator bound at startup (MeSigmaI, MeSigmaIDeriv, *)
(* edgeCurl, MfMui); the in-place subtraction of the source term in field_e of  *)
(* Fields_b changes only the freshly computed result.                           *)
C9_StoreAndOperatorsUnchanged ==
    [][/\ fields' = fields
       /\ MeSigmaI' = MeSigmaI
       /\ MeSigmaIDeriv' = MeSigmaIDeriv
       /\ edgeCurl' = edgeCurl
       /\ MfMui' = MfMui]_vars

C9_Witness ==
    /\ call.op = "e" /\ variant = "b"
    /\ ret.a # MatMat(ForwardOperator, Lookup(fields, call.srcList, call.tInd))
    /\ Lookup(fields, call.srcList, call.tInd) #
          MatMat(MfMui, Lookup(fields, call.srcList, call.tInd))

(* C10: the adjoint branch is taken only for the boolean True.  With the flag   *)
(* 1 the combinators return the forward-mode sum (one value, not a pair) with   *)
(* the sub-derivatives called in forward mode, Fields_b._eDeriv_u and           *)
(* Fields_b._eDeriv_m apply their forward formulas, and Fields_b._eDeriv_m      *)
(* still passes the flag 1 unchanged to the source's evalDeriv.                 *)
C10_OnlyTrueIsAdjoint ==
    /\ (IsCombinator /\ call.adjoint = "One" /\ SubsDefined) =>
          /\ ret.tag # "tuple"
          /\ SameValue(ret, Add(Sub_u(call.op, call.tInd, call.src, call.p, "False"),
                                Sub_m(call.op, call.tInd, call.src, call.v, "False")))
          /\ (call.op = "eDeriv" /\ variant = "b") => seen = "False"
    /\ (call.op = "eDeriv_u" /\ variant = "b" /\ call.adjoint = "One") =>
          ret.a = MatVec(ForwardOperator, call.p)
    /\ (call.op = "eDeriv_m" /\ variant = "b" /\ call.adjoint = "One") =>
          /\ seen = "One"
          /\ ret.a = VecSub(MatVec(MeSigmaIDerivOf(Residual(call.tInd, call.src)), call.v),
                            MatVec(MeSigmaI,
                                   MatVec(src_evalDeriv(srcs[call.src], times[call.tInd],
                                                        "One").S_eDeriv, call.v)))

C10_Witness ==
    /\ call.op = "eDeriv_m" /\ variant = "b" /\ call.adjoint = "One"
    /\ seen = "One"
    /\ ret.a # ZeroVec(nE)
    /\ srcs[call.src] = SrcA

C10_WitnessCombinator ==
    /\ call.op = "eDeriv" /\ variant = "b" /\ call.adjoint = "One"
    /\ ret.tag = "array"
    /\ seen = "False"
    /\ call.p # call.v

====
